---- MODULE Spec2Model ----
(***************************************************************************)
(* Model of util/metadata.py: recording of provenance metadata around one  *)
(* command (add_metadata_tracking._run_cmd_with_tracking), the identifiers *)
(* under which step records are persisted (create_run_id), and the         *)
(* provenance graph built from the persisted records                       *)
(* (ProvenanceGraph.load).                                                  *)
(*                                                                         *)
(* Python strings are TLA+ strings (\o is +, Len is len, SubSeq slices).   *)
(* Python values are records tagged by their class in the field cls.       *)
(* "Error" means an instance of Exception, the class both except clauses   *)
(* of the wrapper name (lines 218 and 327).                                *)
(***************************************************************************)
EXTENDS Integers, Sequences, FiniteSets, TLC

VARIABLES
    environ,        \* os.environ: the set of variables that are defined
    InFileIsStr,    \* TRUE when line 122 rebound InFile, OutFile to str
    fs,             \* the file system: path -> state of that path
    store,          \* the metadata directory: file stem -> persisted document
    clock,          \* time.time(), in seconds
    cwd,            \* os.path.basename(os.getcwd())
    uuidsUsed,      \* number of uuid.uuid4() values drawn so far
    pc,             \* position of the process in _run_cmd_with_tracking
    args_dict,      \* vars(args).copy(), as the sequence of its (name, value) items
    bodyOutcome,    \* what cmd_main did when it was called
    cmd_exception,  \* local of the wrapper (None or the exception caught)
    cmd_result,     \* local of the wrapper
    beg_time,       \* local of the wrapper
    observed,       \* what the invoker of the wrapper observed
    hist,           \* history of the current invocation (for the properties)
    procs,          \* concurrent recorders: process -> its state
    loader          \* ProvenanceGraph.load: its position, its listing, its graph

vars == <<environ, InFileIsStr, fs, store, clock, cwd, uuidsUsed, pc, args_dict,
          bodyOutcome, cmd_exception, cmd_result, beg_time, observed, hist,
          procs, loader>>

runVars == <<pc, args_dict, bodyOutcome, cmd_exception, cmd_result, beg_time,
             observed, hist>>

-----------------------------------------------------------------------------
(* Bounds of the model *)

MaxListLen == 2

MaxTime == 1

NumProcs == 2

MaxRecords == 2

-----------------------------------------------------------------------------
(* Python values *)

None == [cls |-> "None"]

Str(s) == [cls |-> "str", s |-> s]

PyInt(n) == [cls |-> "int", n |-> n]

List(items) == [cls |-> "list", items |-> items]

Dict(items) == [cls |-> "dict", items |-> items]

FileArg(cls, s) == [cls |-> cls, s |-> s]

IsFileArg(val) == val.cls \in {"InFile", "OutFile"}

Truthy(val) ==
    CASE val.cls = "None" -> FALSE
      [] val.cls = "int" -> val.n # 0
      [] val.cls = "list" -> Len(val.items) > 0
      [] val.cls = "dict" -> Len(val.items) > 0
      [] val.cls = "exc" -> val.truthy
      [] val.cls = "function" -> TRUE
      [] OTHER -> val.s # ""

IsMapping(val) == val.cls = "dict"

-----------------------------------------------------------------------------
(* The environment *)

METADATA_PATH == "VIRAL_NGS_METADATA_PATH"

SKIP_CMD == "VIRAL_NGS_SKIP_CMD"

RUN_ID == "VIRAL_NGS_METADATA_RUN_ID"

EnvVars == {METADATA_PATH, SKIP_CMD, RUN_ID}

is_metadata_tracking_enabled == METADATA_PATH \in environ

Paths == {"a", "b"}

Contents == {"X", "YY"}

FileStates == Contents \cup {"missing", "fifo"}

IsRegular(state) == state \in Contents

-----------------------------------------------------------------------------
(* Strings *)

RECURSIVE Rep(_, _)
Rep(c, n) ==
    IF n = 0 THEN "" ELSE IF n = 1 THEN c ELSE Rep(c, n \div 2) \o Rep(c, n - n \div 2)

RECURSIVE Join(_, _)
Join(sep, parts) ==
    IF Len(parts) = 0 THEN ""
    ELSE IF Len(parts) = 1 THEN parts[1]
    ELSE parts[1] \o sep \o Join(sep, Tail(parts))

Slice(s, n) == SubSeq(s, 1, IF Len(s) < n THEN Len(s) ELSE n)

FileNameChar(c) == IF c \in {"/", "\\"} THEN "-" ELSE c

RECURSIVE string_to_file_name(_)
string_to_file_name(s) ==
    IF Len(s) <= 1 THEN FileNameChar(s)
    ELSE string_to_file_name(SubSeq(s, 1, Len(s) \div 2))
         \o string_to_file_name(SubSeq(s, Len(s) \div 2 + 1, Len(s)))

-----------------------------------------------------------------------------
(* Identifiers of runs and steps *)

RunIdMaxLen == 210

User == "u"

LongNameLen == 200

ShortCwd == "proj"

LongCwd == Rep("d", LongNameLen)

\* time.strftime('%Y%m%d%H%M%S', time.localtime(t))[2:]: twelve digits, the
\* last two the seconds
strftime(t) == "2611050146" \o (IF t < 10 THEN "0" ELSE "") \o ToString(t)

\* str(uuid.uuid4()) of the n-th draw: 36 characters, fresh at each draw and
\* differing from every other draw from the first character on
uuid4(n) == ToString(n) \o "f81d4fa-7d3c-4b1e-9a51-0c2f6e8d4a70"

create_run_id(t, n) ==
    Slice(string_to_file_name(Join("__", <<strftime(t), User, cwd, uuid4(n)>>)),
          RunIdMaxLen)

cmd_module == "read_utils"

cmd_name == "main_trim"

StepId(t, n) == Join("__", <<create_run_id(t, n), cmd_module, cmd_name>>)

-----------------------------------------------------------------------------
(* File Role Capabilities: the names InFile and OutFile after line 122 *)

InFile(path) == IF InFileIsStr THEN Str(path) ELSE FileArg("InFile", path)

OutFile(path) == IF InFileIsStr THEN Str(path) ELSE FileArg("OutFile", path)

\* InFile.__new__ opens the path for reading
InFileConstructs(path) == InFileIsStr \/ fs[path] # "missing"

\* OutFile.__new__ probes the path unless VIRAL_NGS_SKIP_CMD is defined
OutFileConstructs(path) ==
    \/ InFileIsStr
    \/ SKIP_CMD \in environ
    \/ fs[path] = "missing"
    \/ IsRegular(fs[path])

\* isinstance(file_arg, InFile), InFile being whatever line 122 left it bound to
IsInstanceInFile(val) ==
    IF InFileIsStr THEN val.cls \in {"str", "InFile", "OutFile"} ELSE val.cls = "InFile"

-----------------------------------------------------------------------------
(* Content identity and file statistics *)

NoTrouble == [p \in Paths |-> "none"]

\* which I/O fails during one recording: nothing, or one operation on one path
Troubles ==
    {NoTrouble} \cup {[NoTrouble EXCEPT ![p] = k] : p \in Paths, k \in {"hash", "stat", "owner"}}

Raised == "<raised>"

\* util.file.hash_file: the digest of the bytes of a file
hash_file(content) == "0x" \o content

Hasher_propagates(file, trouble) ==
    IF IsRegular(fs[file])
    THEN IF trouble[file] = "hash" THEN Raised ELSE "sha1" \o "_" \o hash_file(fs[file])
    ELSE ""

Hasher(file, trouble) ==
    IF IsRegular(fs[file]) /\ trouble[file] # "hash"
    THEN "sha1" \o "_" \o hash_file(fs[file])
    ELSE ""

StatRaises(file, trouble) == fs[file] = "missing" \/ trouble[file] = "stat"

StatFields(file, trouble) ==
    [size |-> IF IsRegular(fs[file]) THEN Len(fs[file]) ELSE 0,
     mtime |-> "mtime:" \o file, ctime |-> "ctime:" \o file]
    @@ (IF trouble[file] = "owner" THEN <<>> ELSE [owner |-> User])

-----------------------------------------------------------------------------
(* File discovery *)

RECURSIVE ConcatAll(_)
ConcatAll(seqs) == IF Len(seqs) = 0 THEN <<>> ELSE Head(seqs) \o ConcatAll(Tail(seqs))

RECURSIVE get_FileArgs(_, _)
get_FileArgs(val, idx_prefix) ==
    IF Truthy(val) /\ IsFileArg(val) THEN << <<idx_prefix, val>> >>
    ELSE IF val.cls = "list"
    THEN ConcatAll([i \in 1..Len(val.items) |->
                       get_FileArgs(val.items[i], Append(idx_prefix, i - 1))])
    ELSE <<>>

\* the (arg, idx, file_arg) triples in the order the loops of lines 278 and 301
\* visit them
Occurrences(items) ==
    ConcatAll([k \in 1..Len(items) |->
                 LET found == get_FileArgs(items[k][2], <<>>)
                 IN  [j \in 1..Len(found) |->
                        [arg |-> items[k][1], idx |-> found[j][1], file_arg |-> found[j][2]]]])

RECURSIVE IdxSuffix(_)
IdxSuffix(idx) ==
    IF Len(idx) = 0 THEN "" ELSE "_" \o ToString(Head(idx)) \o IdxSuffix(Tail(idx))

port_name(arg, idx) == arg \o IdxSuffix(idx)

HashesOutput_always(file_arg, exc) == TRUE

\* line 305
HashesOccurrence(file_arg, exc) == IsInstanceInFile(file_arg) \/ exc = None

file_info(occ, exc, trouble) ==
    LET file == occ.file_arg.s
    IN  [fname |-> occ.file_arg, realpath |-> "/w/" \o file, abspath |-> "/w/" \o file,
         arg |-> occ.arg, arg_idx |-> occ.idx]
        @@ (IF HashesOccurrence(occ.file_arg, exc)
            THEN [hash |-> Hasher(file, trouble)]
                 @@ (IF StatRaises(file, trouble) THEN <<>> ELSE StatFields(file, trouble))
            ELSE <<>>)

FilesKey(file_arg) == IF IsInstanceInFile(file_arg) THEN "in_files" ELSE "out_files"

\* the dict step_data[kind] after the loop over occs[1..n]: a later occurrence
\* assigned to the same port name replaces the earlier one
RECURSIVE FilesDict(_, _, _, _, _)
FilesDict(kind, occs, n, exc, trouble) ==
    IF n = 0 THEN <<>>
    ELSE IF FilesKey(occs[n].file_arg) = kind
    THEN (port_name(occs[n].arg, occs[n].idx) :> file_info(occs[n], exc, trouble))
         @@ FilesDict(kind, occs, n - 1, exc, trouble)
    ELSE FilesDict(kind, occs, n - 1, exc, trouble)

-----------------------------------------------------------------------------
(* The step record and its serialization *)

VIRAL_NGS_METADATA_FORMAT == "1.0.0"

\* json.dumps(val, default=str) of one value
RECURSIVE JsonText(_)
JsonText(val) ==
    CASE val.cls = "None" -> "null"
      [] val.cls = "int" -> ToString(val.n)
      [] val.cls = "list" ->
            "[" \o Join(", ", [i \in 1..Len(val.items) |-> JsonText(val.items[i])]) \o "]"
      [] val.cls = "function" -> "\"<function>\""
      [] OTHER -> "\"" \o val.s \o "\""

\* a Python dict given by its items, as the JSON object json.dumps writes
JsonObject(items) ==
    [k \in {items[i][1] : i \in 1..Len(items)} |->
        JsonText(items[CHOOSE i \in 1..Len(items) : items[i][1] = k][2])]

\* json.dumps of a file_info: the FileArg fname is written as the plain string
JsonFileInfo(info) == [info EXCEPT !["fname"] = info["fname"].s]

JsonFiles(files) == [port \in DOMAIN files |-> JsonFileInfo(files[port])]

\* args_dict after the pops of lines 242 and 245
PopArgs(items) == SelectSeq(items, LAMBDA it : it[1] \notin {"metadata", "func_main"})

metadata_from_cmd_return(result) == IF IsMapping(result) THEN result.items ELSE <<>>

\* lines 240-322 and the json.dumps of line 325
step_data(step_id, run_id, code_hash, items, result, exc, skipped, t0, t1, trouble) ==
    LET args == PopArgs(items)
        meta == metadata_from_cmd_return(result)
        occs == Occurrences(args \o meta)
    IN  [format |-> VIRAL_NGS_METADATA_FORMAT,
         step |-> [step_id |-> step_id, run_id |-> run_id,
                   cmd_module |-> cmd_module, cmd_name |-> cmd_name,
                   code_hash |-> code_hash,
                   beg_time |-> t0, end_time |-> t1, duration |-> t1 - t0,
                   exception |-> IF exc = None THEN "null" ELSE "Traceback: " \o exc.name,
                   cmd_was_skipped |-> skipped,
                   args |-> JsonObject(args),
                   metadata_from_cmd_return |-> JsonObject(meta)],
         in_files |-> JsonFiles(FilesDict("in_files", occs, Len(occs), exc, trouble)),
         out_files |-> JsonFiles(FilesDict("out_files", occs, Len(occs), exc, trouble))]

\* an exception left a sub-step of the assembly of the record
AssemblyRaises(doc) ==
    \E kind \in {"in_files", "out_files"} : \E port \in DOMAIN doc[kind] :
        "hash" \in DOMAIN doc[kind][port] /\ doc[kind][port]["hash"] = Raised

\* util.file.dump_file(os.path.join(metadata_dir(), step_id + '.json'), text)
dump_file(dir, step_id, doc) == (step_id :> doc) @@ dir

-----------------------------------------------------------------------------
(* The provenance graph: a networkx.DiGraph as the attributes of its nodes *)
(* and the set of its edges                                                *)

EmptyGraph == [nodes |-> <<>>, edges |-> {}]

\* DiGraph.add_node(n, **attrs): creates the node or updates its attributes
add_node(g, n, attrs) ==
    [g EXCEPT !.nodes = (n :> (IF n \in DOMAIN @ THEN attrs @@ @[n] ELSE attrs)) @@ @]

\* DiGraph.add_edge(u, v): creates the end nodes that are missing
add_edge(g, u, v) ==
    [g EXCEPT !.nodes = @ @@ (u :> <<>>) @@ (v :> <<>>), !.edges = @ \cup {<<u, v>>}]

port_id(step_id, port) == step_id \o "__" \o port

FileId_by_path(info) == info["fname"]

\* line 368
FileId(info) == info["hash"]

AddFile_once(g, port, file_kind, info) ==
    IF "hash" \in DOMAIN info /\ FileId(info) # ""
       /\ FileId(info) \notin DOMAIN g.nodes
    THEN LET file_id == FileId(info)
             g1 == add_node(g, file_id, [node_kind |-> "file"])
         IN  IF file_kind = "in_files" THEN add_edge(g1, file_id, port)
             ELSE add_edge(g1, port, file_id)
    ELSE g

\* lines 367-371
AddFile(g, port, file_kind, info) ==
    IF "hash" \in DOMAIN info /\ FileId(info) # ""
    THEN LET file_id == FileId(info)
             g1 == add_node(g, file_id, [node_kind |-> "file"])
         IN  IF file_kind = "in_files" THEN add_edge(g1, file_id, port)
             ELSE add_edge(g1, port, file_id)
    ELSE g

\* lines 363-371, for one item of step_record[file_kind]
AddPort(g, step_id, file_kind, port, info) ==
    LET id == port_id(step_id, port)
        g1 == add_node(g, id, info)
        g2 == add_node(g1, id,
                       [node_kind |-> IF file_kind = "in_files" THEN "input" ELSE "output"])
        g3 == IF file_kind = "in_files" THEN add_edge(g2, id, step_id)
              ELSE add_edge(g2, step_id, id)
    IN  AddFile(g3, id, file_kind, info)

\* line 362: the loop over the items of step_record[file_kind]
RECURSIVE AddPorts(_, _, _, _, _)
AddPorts(g, step_id, file_kind, files, ports) ==
    IF ports = {} THEN g
    ELSE LET port == CHOOSE q \in ports : TRUE
         IN  AddPorts(AddPort(g, step_id, file_kind, port, files[port]),
                      step_id, file_kind, files, ports \ {port})

\* lines 358-371: one step record is merged into the graph
LoadRecord(g, step_record) ==
    LET step_id == step_record.step.step_id
        g1 == add_node(g, step_id, [node_kind |-> "step"] @@ step_record.step)
        g2 == AddPorts(g1, step_id, "in_files", step_record.in_files,
                       DOMAIN step_record.in_files)
    IN  AddPorts(g2, step_id, "out_files", step_record.out_files,
                 DOMAIN step_record.out_files)

-----------------------------------------------------------------------------
(* One process running one command through _run_cmd_with_tracking *)

FsStates == {f \in [Paths -> FileStates] : f["a"] \in {"X", "missing"}}

FileVals == {InFile("a"), OutFile("b")}

\* lists of input files, and lists of input files ending in an output file
FileLists ==
    UNION {{[i \in 1..n |-> InFile("a")],
            [i \in 1..n |-> IF i = n THEN OutFile("b") ELSE InFile("a")]} : n \in 1..MaxListLen}

ParserItems == << <<"metadata", None>>, <<"func_main", [cls |-> "function"]>> >>

\* vars(args) of the command lines considered, as the items of the dict
CommandLines ==
    {ParserItems \o items : items \in
        {<< <<"in", InFile("a")>>, <<"out", OutFile("b")>>, <<"n", PyInt(5)>> >>}
        \cup {<< <<"reads", List(l)>> >> : l \in FileLists}
        \cup {<< <<"reads", List(l)>>, <<"reads_1", InFile("a")>> >> : l \in FileLists}
        \cup {<< <<"reads_1", InFile("a")>>, <<"reads", List(l)>> >> : l \in FileLists}
        \cup {<< <<"pairs", List(<<List(l), List(<<OutFile("b")>>)>>)>> >> : l \in FileLists}}

\* every capability among the items could be constructed (lines 96-119)
Constructs(items) ==
    \A i \in 1..Len(Occurrences(items)) :
        LET f == Occurrences(items)[i].file_arg
        IN  IF f.cls = "InFile" THEN InFileConstructs(f.s) ELSE OutFileConstructs(f.s)

Exceptions ==
    {[cls |-> "exc", name |-> "IOError", truthy |-> TRUE],
     [cls |-> "exc", name |-> "EmptyBatch", truthy |-> FALSE]}

ReturnValues ==
    {None, PyInt(0),
     Dict(<< <<"extra", OutFile("b")>> >>),
     Dict(<< <<"in", OutFile("b")>> >>)}

NoHist ==
    [bodyCalls |-> 0, skipAtCall |-> FALSE, recAttempted |-> FALSE,
     enabledAtCheck |-> FALSE, writes |-> 0, step_id |-> "", outcome |-> "none",
     trouble |-> NoTrouble]

IdleLoader == [pc |-> "idle", bound |-> FALSE, todo |-> {}, order |-> <<>>, g |-> EmptyGraph]

InitShared ==
    /\ environ \in SUBSET EnvVars
    /\ InFileIsStr = ~is_metadata_tracking_enabled
    /\ store = <<>>
    /\ uuidsUsed = 0

InitRunVars ==
    /\ pc = "start"
    /\ args_dict = <<>>
    /\ bodyOutcome = [kind |-> "not_called"]
    /\ cmd_exception = None
    /\ cmd_result = None
    /\ beg_time = 0
    /\ observed = [kind |-> "nothing"]
    /\ hist = NoHist

Init ==
    /\ InitShared
    /\ InitRunVars
    /\ fs \in FsStates
    /\ clock = 0
    /\ cwd = ShortCwd
    /\ procs = <<>>
    /\ loader = IdleLoader

\* os.environ is changed (by the command, by its caller, by another thread)
SetEnv ==
    /\ pc = "start"
    /\ \E v \in {METADATA_PATH, SKIP_CMD} :
          environ' = IF v \in environ THEN environ \ {v} ELSE environ \cup {v}
    /\ UNCHANGED <<InFileIsStr, fs, store, clock, cwd, uuidsUsed, runVars, procs, loader>>

\* lines 148-150: the run id of a workflow is put in the environment
set_run_id ==
    /\ pc = "start"
    /\ environ' = environ \cup {RUN_ID}
    /\ UNCHANGED <<InFileIsStr, fs, store, clock, cwd, uuidsUsed, runVars, procs, loader>>

\* lines 205-210: the wrapper is entered with the parsed arguments
Invoke ==
    /\ pc = "start"
    /\ \E items \in CommandLines :
          /\ Constructs(items)
          /\ args_dict' = items
    /\ pc' = "try"
    /\ UNCHANGED <<environ, InFileIsStr, fs, store, clock, cwd, uuidsUsed, bodyOutcome,
                   cmd_exception, cmd_result, beg_time, observed, hist, procs, loader>>

CallBody_ignores_skip ==
    /\ pc = "try"
    /\ beg_time' = clock
    /\ clock' = clock + 1
    /\ \E out \in [kind : {"return"}, val : ReturnValues]
                  \cup [kind : {"raise"}, val : Exceptions] :
         \E f \in FsStates :
             /\ fs' = f
             /\ bodyOutcome' = out
             /\ cmd_result' = IF out.kind = "return" THEN out.val ELSE None
             /\ cmd_exception' = IF out.kind = "raise" THEN out.val ELSE None
             /\ hist' = [hist EXCEPT !.bodyCalls = @ + 1,
                                     !.skipAtCall = SKIP_CMD \in environ]
    /\ pc' = "finally"
    /\ UNCHANGED <<environ, InFileIsStr, store, cwd, uuidsUsed, args_dict, observed,
                   procs, loader>>

\* lines 212-220: the body is called unless VIRAL_NGS_SKIP_CMD is defined
CallBody ==
    /\ pc = "try"
    /\ beg_time' = clock
    /\ clock' = clock + 1
    /\ \/ /\ SKIP_CMD \notin environ
          /\ \E out \in [kind : {"return"}, val : ReturnValues]
                        \cup [kind : {"raise"}, val : Exceptions] :
               \E f \in FsStates :
                   /\ fs' = f
                   /\ bodyOutcome' = out
                   /\ cmd_result' = IF out.kind = "return" THEN out.val ELSE None
                   /\ cmd_exception' = IF out.kind = "raise" THEN out.val ELSE None
                   /\ hist' = [hist EXCEPT !.bodyCalls = @ + 1, !.skipAtCall = SKIP_CMD \in environ]
       \/ /\ SKIP_CMD \in environ
          /\ fs' = fs
          /\ bodyOutcome' = [kind |-> "not_called"]
          /\ cmd_result' = None
          /\ cmd_exception' = None
          /\ hist' = [hist EXCEPT !.skipAtCall = SKIP_CMD \in environ]
    /\ pc' = "finally"
    /\ UNCHANGED <<environ, InFileIsStr, store, cwd, uuidsUsed, args_dict, observed,
                   procs, loader>>

\* how the sub-steps of recording other than hashing and stat end: all succeed;
\* tag_code_version fails and returns ''; a lookup of lines 249-257 raises;
\* json.dumps or dump_file raises
RecordingOutcomes == {"ok", "no_tag", "lookup_raises", "dump_raises"}

\* the faults of one recording: I/O trouble on one file, or one failing sub-step
RecordingFaults ==
    [outcome : {"ok"}, trouble : Troubles]
    \cup [outcome : RecordingOutcomes \ {"ok"}, trouble : {NoTrouble}]

\* lines 221-329: the finally block
Record ==
    /\ pc = "finally"
    /\ \/ /\ is_metadata_tracking_enabled
          /\ \E fault \in RecordingFaults :
               LET outcome == fault.outcome
                   trouble == fault.trouble
                   run_id == IF RUN_ID \in environ THEN "run_of_workflow"
                             ELSE create_run_id(beg_time, uuidsUsed)
                   step_id == StepId(beg_time, uuidsUsed + 1)
                   doc == step_data(step_id, run_id,
                                    IF outcome = "no_tag" THEN "" ELSE "c0de",
                                    args_dict, cmd_result, cmd_exception,
                                    SKIP_CMD \in environ, beg_time, clock, trouble)
                   raises == outcome \in {"lookup_raises", "dump_raises"}
                             \/ AssemblyRaises(doc)
               IN  /\ uuidsUsed' = uuidsUsed + 2
                   /\ store' = IF raises THEN store ELSE dump_file(store, step_id, doc)
                   /\ hist' = [hist EXCEPT !.recAttempted = TRUE,
                                           !.enabledAtCheck = TRUE,
                                           !.writes = IF raises THEN @ ELSE @ + 1,
                                           !.step_id = step_id,
                                           !.outcome = outcome,
                                           !.trouble = trouble]
       \/ /\ ~is_metadata_tracking_enabled
          /\ hist' = [hist EXCEPT !.recAttempted = TRUE, !.enabledAtCheck = FALSE,
                                  !.outcome = "disabled"]
          /\ UNCHANGED <<store, uuidsUsed>>
    /\ pc' = "after"
    /\ UNCHANGED <<environ, InFileIsStr, fs, clock, cwd, args_dict, bodyOutcome,
                   cmd_exception, cmd_result, beg_time, observed, procs, loader>>

\* lines 331-332: the end of the wrapper, which has no return statement
Finish ==
    /\ pc = "after"
    /\ observed' = IF Truthy(cmd_exception)
                   THEN [kind |-> "raise", val |-> cmd_exception]
                   ELSE [kind |-> "return", val |-> None]
    /\ pc' = "done"
    /\ UNCHANGED <<environ, InFileIsStr, fs, store, clock, cwd, uuidsUsed, args_dict,
                   bodyOutcome, cmd_exception, cmd_result, beg_time, hist, procs, loader>>

Next == SetEnv \/ set_run_id \/ Invoke \/ CallBody \/ Record \/ Finish

Spec == Init /\ [][Next]_vars

-----------------------------------------------------------------------------
(* Properties of one invocation of the wrapper *)

Returned == pc = "done"

BodyRaised == bodyOutcome.kind = "raise"

\* the step record this invocation persisted
Persisted == hist.writes > 0 /\ hist.step_id \in DOMAIN store

ThisDoc == store[hist.step_id]

StepFailed(doc) == doc.step.exception # "null"

HasStat(entry) == {"size", "mtime"} \subseteq DOMAIN entry

HasNoDetail(entry) == DOMAIN entry \cap {"hash", "size", "mtime"} = {}

\* C1 (as claimed): the invoker observes an error if and only if the body
\* raised, the error observed is the error of the body, no error of the
\* recording logic reaches the invoker, and the error is raised only after the
\* finally block ran.
C1_Original ==
    Returned =>
        /\ (observed.kind = "raise") <=> BodyRaised
        /\ observed.kind = "raise" => observed.val = bodyOutcome.val
        /\ hist.recAttempted

\* C2 (as claimed): with tracking disabled the wrapper writes nothing and the
\* invoker observes what the body returned or raised.
C2_Original ==
    (Returned /\ ~is_metadata_tracking_enabled) =>
        /\ hist.writes = 0 /\ store = <<>>
        /\ bodyOutcome.kind \in {"return", "raise"} => observed = bodyOutcome

\* C3 (as claimed): in the record of a failed step every output entry has no
\* hash, size or mtime, and every input entry has its hash and its stat fields.
C3_Original ==
    (Persisted /\ StepFailed(ThisDoc)) =>
        /\ \A port \in DOMAIN ThisDoc.out_files : HasNoDetail(ThisDoc.out_files[port])
        /\ \A port \in DOMAIN ThisDoc.in_files :
              "hash" \in DOMAIN ThisDoc.in_files[port] /\ HasStat(ThisDoc.in_files[port])

\* C3 (amended): in the record of a failed step every output entry has no hash,
\* size or mtime; every input entry has a hash field, and has its size and
\* mtime exactly when os.stat of the file succeeded. An output entry has a hash
\* or stat field only in the record of a step whose body did not raise.
C3_Amended ==
    Persisted =>
        /\ StepFailed(ThisDoc) =>
              /\ \A port \in DOMAIN ThisDoc.out_files :
                    HasNoDetail(ThisDoc.out_files[port])
              /\ \A port \in DOMAIN ThisDoc.in_files :
                    LET entry == ThisDoc.in_files[port]
                    IN  /\ "hash" \in DOMAIN entry
                        /\ HasStat(entry) <=>
                              (fs[entry.fname] # "missing" /\ hist.trouble[entry.fname] # "stat")
        /\ \A port \in DOMAIN ThisDoc.out_files :
              ~HasNoDetail(ThisDoc.out_files[port]) => ~StepFailed(ThisDoc)

C3_Witness ==
    /\ Returned /\ Persisted /\ StepFailed(ThisDoc)
    /\ \E port \in DOMAIN ThisDoc.out_files : HasNoDetail(ThisDoc.out_files[port])
    /\ \E port \in DOMAIN ThisDoc.in_files : HasStat(ThisDoc.in_files[port])

\* C4 (as claimed): whatever the environment, the body has been executed
\* exactly once when the wrapper records or returns.
C4_Original == pc \in {"finally", "after", "done"} => hist.bodyCalls = 1

\* C4 (amended): the body is executed at most once, before the wrapper records
\* or returns: exactly once when VIRAL_NGS_SKIP_CMD is not defined at the call
\* of line 217, and not at all when it is defined.
C4_Amended ==
    /\ pc \in {"start", "try"} => hist.bodyCalls = 0
    /\ pc \in {"finally", "after", "done"} =>
          hist.bodyCalls = (IF hist.skipAtCall THEN 0 ELSE 1)

C4_Witness == Returned /\ hist.skipAtCall /\ hist.bodyCalls = 0 /\ Persisted

\* C8 (as claimed): the decision to write a record agrees with the capability
\* variant selected at import, and a process that started with tracking off
\* never writes a record.
C8_Original ==
    pc \in {"after", "done"} =>
        /\ hist.enabledAtCheck <=> ~InFileIsStr
        /\ InFileIsStr => hist.writes = 0

\* the file occurrences of this invocation, in the order of the loops
ThisOccurrences ==
    Occurrences(PopArgs(args_dict) \o metadata_from_cmd_return(cmd_result))

PortNodes(g) ==
    {n \in DOMAIN g.nodes : "node_kind" \in DOMAIN g.nodes[n]
                            /\ g.nodes[n]["node_kind"] \in {"input", "output"}}

\* C9 (as claimed): distinct occurrences of one step get distinct port names,
\* the record has one entry per occurrence, and the graph built from the
\* record has one port node per occurrence.
C9_Original ==
    Persisted =>
        LET occs == ThisOccurrences
        IN  /\ \A i, j \in 1..Len(occs) :
                  i # j => port_name(occs[i].arg, occs[i].idx)
                           # port_name(occs[j].arg, occs[j].idx)
            /\ Cardinality(DOMAIN ThisDoc.in_files) + Cardinality(DOMAIN ThisDoc.out_files)
                  = Len(occs)
            /\ Cardinality(PortNodes(LoadRecord(EmptyGraph, ThisDoc))) = Len(occs)

EntriesOf(doc) ==
    {doc[kind][port] : <<kind, port>> \in
        {kp \in {"in_files", "out_files"} \X (DOMAIN doc.in_files \cup DOMAIN doc.out_files) :
            kp[2] \in DOMAIN doc[kp[1]]}}

\* C10: when nothing but the hashing of files fails during a recording, the
\* step record is persisted with an entry for every port; the entry of a file
\* whose hashing failed has the empty identity, and every other entry that is
\* given an identity has the identity of the content of its own file and, when
\* os.stat of it succeeded, its stat fields.
C10_HashFailureContained ==
    (pc \in {"after", "done"} /\ hist.enabledAtCheck /\ hist.outcome \in {"ok", "no_tag"}) =>
        /\ Persisted
        /\ \A i \in 1..Len(ThisOccurrences) :
              LET occ == ThisOccurrences[i]
                  kind == FilesKey(occ.file_arg)
              IN  /\ port_name(occ.arg, occ.idx) \in DOMAIN ThisDoc[kind]
                  /\ (kind = "in_files" \/ cmd_exception = None) =>
                        "hash" \in DOMAIN ThisDoc[kind][port_name(occ.arg, occ.idx)]
        /\ \A entry \in EntriesOf(ThisDoc) :
              LET f == entry.fname
              IN  "hash" \in DOMAIN entry =>
                    /\ hist.trouble[f] = "hash" => entry.hash = ""
                    /\ (hist.trouble[f] # "hash" /\ IsRegular(fs[f])) =>
                          entry.hash = "sha1_0x" \o fs[f]
                    /\ (hist.trouble[f] # "stat" /\ fs[f] # "missing") => HasStat(entry)

C10_Witness ==
    /\ Returned /\ Persisted
    /\ \E e1, e2 \in EntriesOf(ThisDoc) :
          /\ hist.trouble[e1.fname] = "hash" /\ IsRegular(fs[e1.fname])
          /\ "hash" \in DOMAIN e1 /\ e1.hash = ""
          /\ "hash" \in DOMAIN e2 /\ e2.hash # "" /\ HasStat(e2)

-----------------------------------------------------------------------------
(* Commands recording concurrently into one metadata directory *)

Procs == 1..NumProcs

\* the command line of process p
ProcItems(p) == ParserItems \o << <<"sample", PyInt(p)>> >>

InitStore ==
    /\ environ = {METADATA_PATH}
    /\ InFileIsStr = FALSE
    /\ store = <<>>
    /\ uuidsUsed = 0
    /\ InitRunVars
    /\ fs = [p \in Paths |-> "missing"]
    /\ clock = 0
    /\ cwd \in {ShortCwd, LongCwd}
    /\ procs = [p \in Procs |-> [pc |-> "start", beg_time |-> 0, step_id |-> "",
                                 wrote |-> FALSE]]
    /\ loader = IdleLoader

\* one second passes
Tick ==
    /\ clock < MaxTime
    /\ clock' = clock + 1
    /\ UNCHANGED <<environ, InFileIsStr, fs, store, cwd, uuidsUsed, runVars, procs, loader>>

\* lines 205-220 in process p: beg_time is taken and the body runs
ProcBody(p) ==
    /\ procs[p].pc = "start"
    /\ procs' = [procs EXCEPT ![p].pc = "finally", ![p].beg_time = clock]
    /\ UNCHANGED <<environ, InFileIsStr, fs, store, clock, cwd, uuidsUsed, runVars, loader>>

\* lines 221-329 in process p: the step identifier is made and the record dumped
ProcRecord(p) ==
    /\ procs[p].pc = "finally"
    /\ \E dumped \in BOOLEAN :
         LET t0 == procs[p].beg_time
             step_id == StepId(t0, uuidsUsed + 1)
             doc == step_data(step_id, create_run_id(t0, uuidsUsed), "c0de", ProcItems(p),
                              None, None, FALSE, t0, clock, NoTrouble)
         IN  /\ store' = IF dumped THEN dump_file(store, step_id, doc) ELSE store
             /\ procs' = [procs EXCEPT ![p].pc = "done", ![p].step_id = step_id,
                                       ![p].wrote = dumped]
    /\ uuidsUsed' = uuidsUsed + 2
    /\ UNCHANGED <<environ, InFileIsStr, fs, clock, cwd, runVars, loader>>

NextStore == Tick \/ \E p \in Procs : ProcBody(p) \/ ProcRecord(p)

SpecStore == InitStore /\ [][NextStore]_vars

\* C7 (as claimed): distinct executions get distinct step identifiers, each
\* persists at most one record, under its own identifier, and a record once
\* persisted is never overwritten or changed by another recording.
C7_Original ==
    /\ \A p, q \in Procs :
          (p # q /\ procs[p].pc = "done" /\ procs[q].pc = "done") =>
              procs[p].step_id # procs[q].step_id
    /\ \A p \in Procs :
          procs[p].wrote =>
              /\ procs[p].step_id \in DOMAIN store
              /\ store[procs[p].step_id].step.args = JsonObject(PopArgs(ProcItems(p)))

-----------------------------------------------------------------------------
(* Commands recorded one after the other, then ProvenanceGraph.load *)

\* the commands considered: two with an input and an output argument, and one
\* whose body returns an output file under the name of its input argument
LoadCommands ==
    {[items |-> ParserItems \o << <<"in", InFile("a")>>, <<"out", OutFile("b")>> >>,
      result |-> None],
     [items |-> ParserItems \o << <<"in", InFile("b")>>, <<"out", OutFile("a")>> >>,
      result |-> None],
     [items |-> ParserItems \o << <<"in", InFile("a")>> >>,
      result |-> Dict(<< <<"in", OutFile("b")>> >>)]}

\* the files as a command leaves them: both with the same bytes, with
\* different bytes, or the second one not a regular file
LoadFs ==
    {[p \in Paths |-> "X"],
     [p \in Paths |-> IF p = "a" THEN "X" ELSE "YY"],
     [p \in Paths |-> IF p = "a" THEN "X" ELSE "fifo"]}

InitLoad ==
    /\ environ = {METADATA_PATH}
    /\ InFileIsStr = FALSE
    /\ store = <<>>
    /\ uuidsUsed = 0
    /\ InitRunVars
    /\ fs = [p \in Paths |-> "X"]
    /\ clock = 0
    /\ cwd = ShortCwd
    /\ procs = <<>>
    /\ loader \in {[IdleLoader EXCEPT !.bound = b] : b \in BOOLEAN}

\* lines 205-220, for one more command with tracking enabled: the body leaves
\* the files as f and returns or raises exc
CommandRuns ==
    /\ loader.pc = "idle"
    /\ pc = "start"
    /\ Cardinality(DOMAIN store) < MaxRecords
    /\ \E cmd \in LoadCommands : \E exc \in {None} \cup {e \in Exceptions : e.truthy} :
         \E f \in LoadFs :
             /\ args_dict' = cmd.items
             /\ cmd_result' = IF exc = None THEN cmd.result ELSE None
             /\ cmd_exception' = exc
             /\ fs' = f
    /\ beg_time' = clock
    /\ pc' = "finally"
    /\ UNCHANGED <<environ, InFileIsStr, store, clock, cwd, uuidsUsed, bodyOutcome,
                   observed, hist, procs, loader>>

\* lines 221-334 of that command: its record is dumped and the process ends
StepRecorded ==
    /\ loader.pc = "idle"
    /\ pc = "finally"
    /\ store' = dump_file(store, StepId(beg_time, uuidsUsed + 1),
                          step_data(StepId(beg_time, uuidsUsed + 1),
                                    create_run_id(beg_time, uuidsUsed), "c0de",
                                    args_dict, cmd_result, cmd_exception, FALSE,
                                    beg_time, clock, NoTrouble))
    /\ uuidsUsed' = uuidsUsed + 2
    /\ clock' = clock + 1
    /\ pc' = "start"
    /\ args_dict' = <<>>
    /\ cmd_result' = None
    /\ cmd_exception' = None
    /\ UNCHANGED <<environ, InFileIsStr, fs, cwd, bodyOutcome, beg_time, observed, hist,
                   procs, loader>>

DirEntries == {step_id \o ".json" : step_id \in DOMAIN store} \cup {"code_repo"}

EndsWithJson(name) == Len(name) >= 5 /\ SubSeq(name, Len(name) - 4, Len(name)) = ".json"

Stem(name) == SubSeq(name, 1, Len(name) - 5)

\* lines 353-355: os.listdir(path)
LoadBegin ==
    /\ loader.pc = "idle"
    /\ pc = "start"
    /\ loader' = [loader EXCEPT !.pc = "loop", !.todo = DirEntries]
    /\ UNCHANGED <<environ, InFileIsStr, fs, store, clock, cwd, uuidsUsed, runVars, procs>>

\* lines 355-371: one directory entry, in whatever order os.listdir gave them;
\* the name pgraph is bound only if the caller has put a graph in the module
LoadStep ==
    /\ loader.pc = "loop"
    /\ \E name \in loader.todo :
         \/ /\ ~EndsWithJson(name)
            /\ loader' = [loader EXCEPT !.todo = @ \ {name}]
         \/ /\ EndsWithJson(name)
            /\ loader.bound
            /\ loader' = [loader EXCEPT !.todo = @ \ {name}, !.order = Append(@, name),
                                        !.g = LoadRecord(@, store[Stem(name)])]
         \/ /\ EndsWithJson(name)
            /\ ~loader.bound
            /\ loader' = [loader EXCEPT !.pc = "NameError"]
    /\ UNCHANGED <<environ, InFileIsStr, fs, store, clock, cwd, uuidsUsed, runVars, procs>>

\* line 373
LoadReturn ==
    /\ loader.pc = "loop"
    /\ loader.todo = {}
    /\ loader' = [loader EXCEPT !.pc = IF loader.bound THEN "returned" ELSE "NameError"]
    /\ UNCHANGED <<environ, InFileIsStr, fs, store, clock, cwd, uuidsUsed, runVars, procs>>

NextLoad == CommandRuns \/ StepRecorded \/ LoadBegin \/ LoadStep \/ LoadReturn

SpecLoad == InitLoad /\ [][NextLoad]_vars

-----------------------------------------------------------------------------
(* Properties of the graph that load returns *)

GraphBuilt == loader.pc = "returned"

Recs == {store[k] : k \in DOMAIN store}

FileKinds == {"in_files", "out_files"}

\* the (record, kind, port) triples of the store whose entry has a non-empty
\* content identity
Identified ==
    {t \in UNION {{<<doc, kind, port>> : port \in DOMAIN doc[kind]} :
                     <<doc, kind>> \in Recs \X FileKinds} :
        "hash" \in DOMAIN t[1][t[2]][t[3]] /\ t[1][t[2]][t[3]]["hash"] # ""}

IdentityOf(t) == t[1][t[2]][t[3]]["hash"]

PortOf(t) == port_id(t[1].step.step_id, t[3])

FileNodes(g) ==
    {n \in DOMAIN g.nodes : "node_kind" \in DOMAIN g.nodes[n]
                            /\ g.nodes[n]["node_kind"] = "file"}

AllPorts == UNION {{<<doc, kind, port>> : port \in DOMAIN doc[kind]} :
                      <<doc, kind>> \in Recs \X FileKinds}

ExpectedNodes ==
    {doc.step.step_id : doc \in Recs} \cup {PortOf(t) : t \in AllPorts}
    \cup {IdentityOf(t) : t \in Identified}

ExpectedEdges ==
    {IF t[2] = "in_files" THEN <<PortOf(t), t[1].step.step_id>>
     ELSE <<t[1].step.step_id, PortOf(t)>> : t \in AllPorts}
    \cup {IF t[2] = "in_files" THEN <<IdentityOf(t), PortOf(t)>>
          ELSE <<PortOf(t), IdentityOf(t)>> : t \in Identified}

====
